---- MODULE Spec2Model ----
(***************************************************************************)
(* Model of auto-description.py: the OUI registry cache (DUT.oui_list),    *)
(* the MAC organization resolver (DUT.org_from_mac) and the neighbor       *)
(* description synthesizer (main / auto_description).                      *)
(*                                                                         *)
(* A MAC address or an OUI key is the sequence of its 12 hexadecimal       *)
(* digits (the "mac_bare" rendering of netaddr), each digit a number       *)
(* 0..15.  A registry prefix with three octets is the sequence of its 6    *)
(* digits.  Time is in milliseconds, as the store's dateTimeInLongFormat.  *)
(***************************************************************************)
EXTENDS Integers, Sequences, FiniteSets, TLC

VARIABLES
    \* ---- registry document parse (_download loop) ----
    m_doc,          \* the matched lines of the registry document
    m_i,            \* index of the next match to process
    m_db,           \* db, the mapping being built
    \* ---- resolver (org_from_mac) ----
    r_mac,          \* mac_address
    r_db,           \* the mapping returned by oui_list
    r_ext,          \* EXTERNAL_OUI_LOOKUP
    r_static,       \* the static netaddr registration of the MAC's OUI
    r_pc,           \* "call" | "returned"
    r_ret,          \* the value returned
    \* ---- OUI registry cache (oui_list and the configlet store) ----
    now,            \* datetime.utcnow(), in milliseconds
    py2,            \* the interpreter divides integers with floor (Python 2)
    configlet,      \* the "oui.json" object of the configlet store
    fetches,        \* the times at which the registry was fetched (curl)
    c_ret,          \* the mapping returned by the last oui_list call
    c_last,         \* what the last oui_list call saw and did
    \* ---- one run of main / auto_description ----
    lldp_neighbors,     \* "show lldp neighbors detail": name -> entry
    mac_address_table,  \* "show mac address-table": the table entries
    comments,           \* running-config: name -> carries "no auto-description"
    interfaces,         \* "show interfaces", enriched by the two *_to_interfaces
    a_pc,               \* "ingest" | "loop" | "done" | "raised"
    a_i,                \* position in the sorted list of interfaces
    port_channels,      \* port_channels, the set of described port-channels
    output              \* the blocks printed so far

mvars == <<m_doc, m_i, m_db>>
rvars == <<r_mac, r_db, r_ext, r_static, r_pc, r_ret>>
cvars == <<now, py2, configlet, fetches, c_ret, c_last>>
avars == <<lldp_neighbors, mac_address_table, comments, interfaces, a_pc, a_i,
           port_channels, output>>
vars == <<m_doc, m_i, m_db, r_mac, r_db, r_ext, r_static, r_pc, r_ret,
          now, py2, configlet, fetches, c_ret, c_last,
          lldp_neighbors, mac_address_table, comments, interfaces, a_pc, a_i,
          port_channels, output>>

-----------------------------------------------------------------------------
(* Program constants *)

OUI24_MASK == <<15, 15, 15, 15, 15, 15, 0, 0, 0, 0, 0, 0>>
OUI28_MASK == <<15, 15, 15, 15, 15, 15, 15, 0, 0, 0, 0, 0>>
OUI36_MASK == <<15, 15, 15, 15, 15, 15, 15, 15, 15, 0, 0, 0>>
SECONDS_PER_24H == 86400

Placeholder == "IEEERegi"
Unknown == "Unknown"
NotRegistered == "NotRegisteredError"

-----------------------------------------------------------------------------
(* Bounds and input sets *)

MaxLines == 3

Orgs == {"IEEERegi", "Acme", "Globex"}

\* registry prefixes, written with three or with six octets as the registry
\* document writes them: 00:1B:C5 (three octets), the same block written
\* with six octets, a /28 block and a /36 block below it
Pfx24 == <<0, 0, 1, 11, 12, 5>>
Pfx24Full == <<0, 0, 1, 11, 12, 5, 0, 0, 0, 0, 0, 0>>
Pfx28 == <<0, 0, 1, 11, 12, 5, 7, 0, 0, 0, 0, 0>>
Pfx36 == <<0, 0, 1, 11, 12, 5, 7, 3, 2, 0, 0, 0>>
OtherPfx24 == <<10, 10, 11, 11, 12, 12>>

DocPrefixes == {Pfx24, Pfx24Full, Pfx36}
DocLines == [oui : DocPrefixes, org : Orgs]

RECURSIVE SeqsUpTo(_, _)
SeqsUpTo(S, n) ==
    IF n = 0 THEN {<<>>}
    ELSE LET shorter == SeqsUpTo(S, n - 1)
         IN  shorter \cup {Append(s, x) : s \in {t \in shorter : Len(t) = n - 1}, x \in S}

-----------------------------------------------------------------------------
(* Mappings (Python dict with string keys) *)

EmptyDb == [k \in {} |-> ""]

DictSet(d, k, v) == [x \in (DOMAIN d) \cup {k} |-> IF x = k THEN v ELSE d[x]]

-----------------------------------------------------------------------------
(* _download: normalisation and merge of one matched line *)

\* len(oui) == 8 ("AA:BB:CC") -> oui += ":00:00:00"; then str(EUI) bare
NormalizeOui(oui) ==
    IF Len(oui) = 6 THEN oui \o <<0, 0, 0, 0, 0, 0>> ELSE oui

\* the variant of the merge that always stores the new value
MergeLine_Overwrite(db, line) == DictSet(db, NormalizeOui(line.oui), line.org)

\* if oui not in db or db[oui] == "IEEERegi": db[oui] = org
MergeLine(db, line) ==
    LET oui == NormalizeOui(line.oui)
    IN  IF oui \notin DOMAIN db \/ db[oui] = Placeholder
        THEN DictSet(db, oui, line.org)
        ELSE db

RECURSIVE ParseMatches(_, _)
ParseMatches(db, matches) ==
    IF matches = <<>> THEN db
    ELSE ParseMatches(MergeLine(db, Head(matches)), Tail(matches))

-----------------------------------------------------------------------------
(* Specification of the parse loop of _download *)

MInit ==
    /\ m_doc \in SeqsUpTo(DocLines, MaxLines)
    /\ m_i = 1
    /\ m_db = EmptyDb

MStep ==
    /\ m_i <= Len(m_doc)
    /\ m_db' = MergeLine(m_db, m_doc[m_i])
    /\ m_i' = m_i + 1
    /\ UNCHANGED m_doc

MIdle ==
    /\ m_doc = <<>>
    /\ m_i = 1
    /\ m_db = EmptyDb

-----------------------------------------------------------------------------
(* org_from_mac *)

Bit(n, i) == (n \div (2 ^ i)) % 2

\* bitwise AND of two hexadecimal digits
NibbleAnd(a, b) ==
    Bit(a, 0) * Bit(b, 0) + 2 * Bit(a, 1) * Bit(b, 1)
      + 4 * Bit(a, 2) * Bit(b, 2) + 8 * Bit(a, 3) * Bit(b, 3)

\* str(EUI(int(mac_address.bin, 2) & mask)) in the mac_bare dialect
MaskedOui(mac, mask) == [i \in 1..12 |-> NibbleAnd(mac[i], mask[i])]

\* for mask in (...): the variant without the break keeps the last hit
RECURSIVE MaskLoop_NoBreak(_, _, _, _)
MaskLoop_NoBreak(mac, db, masks, org) ==
    IF masks = <<>> THEN org
    ELSE LET oui == MaskedOui(mac, Head(masks))
         IN  IF oui \in DOMAIN db
             THEN MaskLoop_NoBreak(mac, db, Tail(masks), db[oui])
             ELSE MaskLoop_NoBreak(mac, db, Tail(masks), org)

\* for mask in (OUI36_MASK, OUI28_MASK, OUI24_MASK): ... break on a hit
RECURSIVE MaskLoop(_, _, _, _)
MaskLoop(mac, db, masks, org) ==
    IF masks = <<>> THEN org
    ELSE LET oui == MaskedOui(mac, Head(masks))
         IN  IF oui \in DOMAIN db
             THEN db[oui]
             ELSE MaskLoop(mac, db, Tail(masks), org)

\* mac_address.oui.registration().org, "Unknown" on NotRegisteredError
StaticOrg(static) == IF static = NotRegistered THEN Unknown ELSE static

\* the variant that consults the static registration after a miss
OrgOf_StaticAfterMiss(mac, db, ext, static) ==
    IF ext
    THEN LET org == MaskLoop(mac, db, <<OUI36_MASK, OUI28_MASK, OUI24_MASK>>, Unknown)
         IN  IF org = Unknown THEN StaticOrg(static) ELSE org
    ELSE StaticOrg(static)

\* the organization chosen by org_from_mac
OrgOf(mac, db, ext, static) ==
    IF ext
    THEN MaskLoop(mac, db, <<OUI36_MASK, OUI28_MASK, OUI24_MASK>>, Unknown)
    ELSE StaticOrg(static)

\* str(org) + ", " + last_six
OrgFromMac(mac, db, ext, static) ==
    [org |-> OrgOf(mac, db, ext, static), last_six |-> SubSeq(mac, 7, 12)]

NoReturn == [org |-> "", last_six |-> <<>>]

-----------------------------------------------------------------------------
(* Specification of the resolver over bounded inputs *)

MacA == <<0, 0, 1, 11, 12, 5, 7, 3, 2, 4, 5, 6>>
MacB == <<0, 0, 1, 11, 12, 5, 7, 9, 9, 1, 2, 3>>
MacC == <<0, 0, 1, 11, 12, 5, 0, 0, 0, 0, 1, 2>>
MacD == <<10, 10, 11, 11, 12, 12, 1, 2, 3, 4, 5, 6>>
Macs == {MacA, MacB, MacC, MacD}

DbKeys == {Pfx24Full, Pfx28, Pfx36, NormalizeOui(OtherPfx24)}
Dbs == UNION {[K -> Orgs] : K \in SUBSET DbKeys}
StaticRegs == {NotRegistered, "Acme", "Initech"}

RInit ==
    /\ r_mac \in Macs
    /\ r_db \in Dbs
    /\ r_ext \in BOOLEAN
    /\ r_static \in StaticRegs
    /\ r_pc = "call"
    /\ r_ret = NoReturn

RCall ==
    /\ r_pc = "call"
    /\ r_ret' = OrgFromMac(r_mac, r_db, r_ext, r_static)
    /\ r_pc' = "returned"
    /\ UNCHANGED <<r_mac, r_db, r_ext, r_static>>

RIdle ==
    /\ r_mac = MacA
    /\ r_db = EmptyDb
    /\ r_ext = TRUE
    /\ r_static = NotRegistered
    /\ r_pc = "call"
    /\ r_ret = NoReturn

-----------------------------------------------------------------------------
(* JSON text of a mapping: a sequence of tokens *)

LBrace == [tok |-> "{", k |-> <<>>, v |-> ""]
RBrace == [tok |-> "}", k |-> <<>>, v |-> ""]
Pair(k, v) == [tok |-> "pair", k |-> k, v |-> v]

RECURSIVE DumpPairs(_, _)
DumpPairs(db, keys) ==
    IF keys = {} THEN <<>>
    ELSE LET k == CHOOSE x \in keys : TRUE
         IN  <<Pair(k, db[k])>> \o DumpPairs(db, keys \ {k})

\* json.dumps(dict): "{}" for the empty dict, never the empty string
JsonDumps(db) == <<LBrace>> \o DumpPairs(db, DOMAIN db) \o <<RBrace>>

\* json.loads(text) of an object
JsonLoads(text) ==
    LET idx == {i \in 1..Len(text) : text[i].tok = "pair"}
        keys == {text[i].k : i \in idx}
    IN  [k \in keys |-> text[CHOOSE i \in idx : text[i].k = k].v]

\* truth value of a Python string
Truthy(text) == Len(text) > 0

-----------------------------------------------------------------------------
(* The configlet store (external collaborator) and its REST wrappers *)

NoConfiglet == [exists |-> FALSE, ts |-> 0, config |-> <<>>]

\* configlet_exists: (key, dateTimeInLongFormat), or (False, 0) when the
\* connection fails or the store answers with an errorCode
configlet_exists(obj, ok) ==
    IF ok /\ obj.exists THEN [key |-> TRUE, ts |-> obj.ts]
    ELSE [key |-> FALSE, ts |-> 0]

\* configlet_get: the config text, or "{}"
configlet_get(obj, ok) ==
    IF ok /\ obj.exists THEN obj.config ELSE JsonDumps(EmptyDb)

\* configlet_add: the store creates the object unless the call fails or the
\* name is taken; the store stamps the object with the current time
configlet_add(obj, data, ok, t) ==
    IF ok /\ ~obj.exists THEN [exists |-> TRUE, ts |-> t, config |-> data]
    ELSE obj

\* configlet_update: the store replaces the config of the object with the
\* given key unless the call fails
configlet_update(obj, data, ok, t) ==
    IF ok /\ obj.exists THEN [exists |-> TRUE, ts |-> t, config |-> data]
    ELSE obj

-----------------------------------------------------------------------------
(* oui_list *)

MsPerSecond == 1000

\* timestamp / 1000: floor division of an int under Python 2, true
\* division under Python 3 (kept in milliseconds)
TimestampSecondsMs(timestamp, floorDiv) ==
    IF floorDiv THEN (timestamp \div MsPerSecond) * MsPerSecond ELSE timestamp

\* (utcnow() - utcfromtimestamp(timestamp / 1000)).total_seconds() > 86400
is_24h_old(timestamp, t, floorDiv) ==
    t - TimestampSecondsMs(timestamp, floorDiv) > SECONDS_PER_24H * MsPerSecond

NoResponse == [ok |-> FALSE, matches |-> <<>>]
Response(matches) == [ok |-> TRUE, matches |-> matches]

\* _download: db = {}; if not response: return db; merge all matches
Download(response) ==
    IF ~response.ok THEN EmptyDb ELSE ParseMatches(EmptyDb, response.matches)

\* update_needed = (not key) or (timestamp and is_24h_old(timestamp))
UpdateNeeded(ex, t, floorDiv) ==
    (~ex.key) \/ (ex.ts # 0 /\ is_24h_old(ex.ts, t, floorDiv))

\* the store object after the "if update_needed:" block
AfterRefresh(obj, ex, response, writeOk, t) ==
    LET db == JsonDumps(Download(response))
    IN  IF Truthy(db) /\ ~ex.key THEN configlet_add(obj, db, writeOk, t)
        ELSE IF Truthy(db) /\ ex.key THEN configlet_update(obj, db, writeOk, t)
        ELSE obj

NoCall == [called |-> FALSE, at |-> 0, pre |-> NoConfiglet,
           update_needed |-> FALSE, response |-> NoResponse, writeOk |-> FALSE,
           getOk |-> FALSE]

MaxFetches == 3

\* one call of oui_list, with the outcome of the fetch and of each store call
OuiList(response, existsOk, writeOk, getOk) ==
    LET ex == configlet_exists(configlet, existsOk)
        update_needed == UpdateNeeded(ex, now, py2)
        obj == IF update_needed
               THEN AfterRefresh(configlet, ex, response, writeOk, now)
               ELSE configlet
    IN  /\ update_needed => Len(fetches) < MaxFetches
        /\ ~update_needed => (~response.ok /\ writeOk)
        /\ configlet' = obj
        /\ fetches' = IF update_needed THEN Append(fetches, now) ELSE fetches
        /\ c_ret' = JsonLoads(configlet_get(obj, getOk))
        /\ c_last' = [called |-> TRUE, at |-> now, pre |-> configlet,
                      update_needed |-> update_needed,
                      response |-> IF update_needed THEN response ELSE NoResponse,
                      writeOk |-> writeOk, getOk |-> getOk]
        /\ UNCHANGED <<now, py2>>

-----------------------------------------------------------------------------
(* Specification of the cache: oui_list calls by one caller, and the clock *)

MsPer24h == SECONDS_PER_24H * MsPerSecond
StartNow == 2 * MsPer24h
MaxDays == 1
MaxSkew == 1000
TickSteps == {500, MsPer24h}

Doc1 == <<[oui |-> Pfx24, org |-> "IEEERegi"], [oui |-> Pfx36, org |-> "Acme"]>>
Doc2 == <<[oui |-> Pfx24, org |-> "Globex"], [oui |-> Pfx24, org |-> "IEEERegi"]>>
Doc3 == <<[oui |-> Pfx36, org |-> "IEEERegi"]>>
RegistryDocs == {Doc1, Doc2, Doc3}
Responses == {NoResponse} \cup {Response(d) : d \in RegistryDocs}

InitTimestamps ==
    {0, StartNow, StartNow - MsPer24h, StartNow - MsPer24h - 500,
     StartNow - MsPer24h - 1000}
InitConfigs == {JsonDumps(EmptyDb), JsonDumps(ParseMatches(EmptyDb, Doc1))}
InitConfiglets ==
    {NoConfiglet} \cup [exists : {TRUE}, ts : InitTimestamps, config : InitConfigs]

CInit ==
    /\ now = StartNow
    /\ py2 \in BOOLEAN
    /\ configlet \in InitConfiglets
    /\ fetches = <<>>
    /\ c_ret = EmptyDb
    /\ c_last = NoCall

CTick ==
    /\ \E d \in TickSteps :
          /\ (now + d) % MsPer24h <= MaxSkew
          /\ (now + d) \div MsPer24h <= (StartNow \div MsPer24h) + MaxDays
          /\ now' = now + d
    /\ UNCHANGED <<py2, configlet, fetches, c_ret, c_last>>

COuiList ==
    \E response \in Responses, existsOk \in BOOLEAN, writeOk \in BOOLEAN,
       getOk \in BOOLEAN :
        OuiList(response, existsOk, writeOk, getOk)

CIdle ==
    /\ now = StartNow
    /\ py2 = FALSE
    /\ configlet = NoConfiglet
    /\ fetches = <<>>
    /\ c_ret = EmptyDb
    /\ c_last = NoCall

-----------------------------------------------------------------------------
(* Strings the run works on *)

\* interface names as sequences of character codes
Codes(name) ==
    CASE name = "Ethernet10" -> <<69, 116, 104, 101, 114, 110, 101, 116, 49, 48>>
      [] name = "Ethernet2" -> <<69, 116, 104, 101, 114, 110, 101, 116, 50>>
      [] name = "Ethernet99" -> <<69, 116, 104, 101, 114, 110, 101, 116, 57, 57>>
      [] name = "Port-Channel1"
           -> <<80, 111, 114, 116, 45, 67, 104, 97, 110, 110, 101, 108, 49>>

EthernetCodes == <<69, 116, 104, 101, 114, 110, 101, 116>>
ManagementCodes == <<77, 97, 110, 97, 103, 101, 109, 101, 110, 116>>

\* str.startswith
StartsWith(s, prefix) ==
    Len(s) >= Len(prefix) /\ SubSeq(s, 1, Len(prefix)) = prefix

\* the order of Python strings
RECURSIVE LexLess(_, _)
LexLess(a, b) ==
    IF a = <<>> THEN b # <<>>
    ELSE IF b = <<>> THEN FALSE
    ELSE IF Head(a) < Head(b) THEN TRUE
    ELSE IF Head(a) > Head(b) THEN FALSE
    ELSE LexLess(Tail(a), Tail(b))

\* sorted(interfaces.values(), key=lambda x: x["name"])
RECURSIVE SortedNames(_)
SortedNames(names) ==
    IF names = {} THEN <<>>
    ELSE LET first == CHOOSE n \in names :
                        \A o \in names \ {n} : LexLess(Codes(n), Codes(o))
         IN  <<first>> \o SortedNames(names \ {first})

\* the "upper" filter of the template
Upper(str) ==
    CASE str = "host1" -> "HOST1"
      [] str = "host2" -> "HOST2"
      [] str = "Ethernet3" -> "ETHERNET3"
      [] str = "uplink" -> "UPLINK"
      [] str = "Acme" -> "ACME"
      [] str = "Globex" -> "GLOBEX"
      [] str = "Initech" -> "INITECH"
      [] str = "IEEERegi" -> "IEEEREGI"
      [] str = "Unknown" -> "UNKNOWN"
      [] OTHER -> str

\* a text that is a hostname (its labels between the dots) or a MAC address
HostText(labels) == [kind |-> "name", labels |-> labels, mac |-> <<>>]
MacText(mac) == [kind |-> "mac", labels |-> <<>>, mac |-> mac]
NoText == [kind |-> "", labels |-> <<>>, mac |-> <<>>]

\* is_mac: netaddr.EUI parses the text
is_mac(text) == text.kind = "mac"

\* TEMPLATE.render(interface=..., description=...) for a hostname description
HostBlock(name, parts) ==
    [interface |-> name, text |-> [i \in 1..Len(parts) |-> Upper(parts[i])],
     hex |-> <<>>]

\* TEMPLATE.render for the description returned by org_from_mac
OrgBlock(name, ret) ==
    [interface |-> name, text |-> <<Upper(ret.org), ", ">>, hex |-> ret.last_six]

-----------------------------------------------------------------------------
(* Inputs of a run *)

EthNames == {"Ethernet10", "Ethernet2"}
PoName == "Port-Channel1"
IfNames == EthNames \cup {PoName}

Nii(keys, type, idv2, descr) ==
    [keys |-> keys, interfaceIdType |-> type, interfaceId_v2 |-> idv2,
     interfaceDescription |-> descr]
NoNii == Nii({}, "", "", "")

Neighbor(keys, sys, chassis, nii) ==
    [keys |-> keys, systemName |-> sys, chassisId |-> chassis,
     neighborInterfaceInfo |-> nii]

AllNbKeys == {"systemName", "chassisId", "neighborInterfaceInfo"}
AllNiiKeys == {"interfaceIdType", "interfaceId_v2", "interfaceDescription"}

NbHost1 == Neighbor(AllNbKeys, HostText(<<"host1", "example", "com">>),
                    MacText(MacA),
                    Nii(AllNiiKeys, "interfaceName", "Ethernet3", "uplink"))
NbHost2 == Neighbor(AllNbKeys, HostText(<<"host2">>), MacText(MacB),
                    Nii({"interfaceIdType", "interfaceDescription"}, "local", "",
                        "uplink"))
NbMac == Neighbor({"chassisId", "neighborInterfaceInfo"}, NoText, MacText(MacA),
                  Nii(AllNiiKeys, "macAddress", "Ethernet3", "uplink"))
\* malformed records
NbNoChassis == Neighbor({"neighborInterfaceInfo"}, NoText, NoText,
                        Nii(AllNiiKeys, "interfaceName", "Ethernet3", "uplink"))
NbNoNii == Neighbor({"systemName", "chassisId"}, HostText(<<"host1">>),
                    MacText(MacA), NoNii)
NbNoIfId == Neighbor(AllNbKeys, HostText(<<"host1">>), MacText(MacA),
                     Nii({"interfaceIdType"}, "interfaceName", "", ""))

WellFormedNeighbors == {NbHost1, NbHost2, NbMac}
MalformedNeighbors == {NbNoChassis, NbNoNii, NbNoIfId}

\* an entry of lldpNeighbors: with or without the lldpNeighborInfo list
LldpEntry(has, list) == [has |-> has, lldpNeighborInfo |-> list]
LldpEntries ==
    {LldpEntry(FALSE, <<>>), LldpEntry(TRUE, <<NbHost1, NbHost2>>)}
      \cup {LldpEntry(TRUE, <<n>>) : n \in WellFormedNeighbors \cup MalformedNeighbors}

LldpInputs == UNION {[K -> LldpEntries] : K \in SUBSET EthNames}

MacEntry(keys, name, mac) == [keys |-> keys, interface |-> name, macAddress |-> mac]
BothKeys == {"interface", "macAddress"}
MacTables ==
    { <<>>,
      <<MacEntry(BothKeys, "Ethernet10", MacA)>>,
      <<MacEntry(BothKeys, "Ethernet99", MacD), MacEntry(BothKeys, "Ethernet2", MacB)>>,
      <<MacEntry({"interface"}, "Ethernet10", <<>>)>>,
      <<MacEntry(BothKeys, "Ethernet2", MacA), MacEntry(BothKeys, "Ethernet2", MacB)>> }

MemberOfPo == <<"Member", "of", "Port-Channel1">>

\* an interface of "show interfaces"
Interface(name, member) ==
    [name |-> name,
     hasMembership |-> member, interfaceMembership |-> IF member THEN MemberOfPo ELSE <<>>,
     has_lldp |-> FALSE, lldp_neighbors |-> <<>>,
     has_mac |-> FALSE, mac_address_table |-> <<>>]

InterfaceInputs ==
    {[n \in IfNames |-> Interface(n, n \in M)] : M \in SUBSET EthNames}

-----------------------------------------------------------------------------
(* lldp_neighbors_to_interfaces and mac_address_table_to_interfaces *)

\* interfaces[interface]["lldp_neighbors"] = ...["lldpNeighborInfo"];
\* a KeyError (unknown interface, missing list) skips the entry
lldp_neighbors_to_interfaces(ifs, lldp) ==
    [n \in DOMAIN ifs |->
        IF n \in DOMAIN lldp /\ lldp[n].has
        THEN [ifs[n] EXCEPT !.has_lldp = TRUE,
                            !.lldp_neighbors = lldp[n].lldpNeighborInfo]
        ELSE ifs[n]]

\* interfaces[entry["interface"]].setdefault("mac_address_table", []).append(entry);
\* a KeyError (no "interface" key, unknown interface) skips the entry
RECURSIVE mac_address_table_to_interfaces(_, _)
mac_address_table_to_interfaces(ifs, table) ==
    IF table = <<>> THEN ifs
    ELSE LET e == Head(table)
             next == IF "interface" \in e.keys /\ e.interface \in DOMAIN ifs
                     THEN [ifs EXCEPT ![e.interface].has_mac = TRUE,
                                      ![e.interface].mac_address_table =
                                          Append(@, e)]
                     ELSE ifs
         IN  mac_address_table_to_interfaces(next, Tail(table))

-----------------------------------------------------------------------------
(* auto_description: the body of the loop for one interface *)

Plan(kind, short, id, mac) == [kind |-> kind, short |-> short, id |-> id, mac |-> mac]

\* the hostname branch, up to the neighbor interface id
HostPlan(neighbor, description) ==
    LET nii == neighbor.neighborInterfaceInfo
    IN  IF "neighborInterfaceInfo" \notin neighbor.keys
           \/ "interfaceIdType" \notin nii.keys
        THEN Plan("raise", "", "", <<>>)
        ELSE IF nii.interfaceIdType = "interfaceName"
        THEN IF "interfaceId_v2" \in nii.keys
             THEN Plan("host", Head(description.labels), nii.interfaceId_v2, <<>>)
             ELSE Plan("raise", "", "", <<>>)
        ELSE IF "interfaceDescription" \in nii.keys
             THEN Plan("host", Head(description.labels), nii.interfaceDescription, <<>>)
             ELSE Plan("raise", "", "", <<>>)

\* what the loop body does for the interface: "skip" (continue), "none" (no
\* description), "raise" (KeyError), "host" (hostname description) or "mac"
\* (description from org_from_mac)
InterfacePlan(interface, marked) ==
    IF ~StartsWith(Codes(interface.name), EthernetCodes)
         /\ ~StartsWith(Codes(interface.name), ManagementCodes)
    THEN Plan("skip", "", "", <<>>)
    ELSE IF marked THEN Plan("skip", "", "", <<>>)
    ELSE IF Len(interface.lldp_neighbors) = 1
    THEN LET neighbor == interface.lldp_neighbors[1]
         IN  IF "systemName" \notin neighbor.keys /\ "chassisId" \notin neighbor.keys
             THEN Plan("raise", "", "", <<>>)
             ELSE LET description == IF "systemName" \in neighbor.keys
                                     THEN neighbor.systemName
                                     ELSE neighbor.chassisId
                  IN  IF is_mac(description)
                      THEN Plan("mac", "", "", description.mac)
                      ELSE HostPlan(neighbor, description)
    ELSE IF Len(interface.mac_address_table) = 1
    THEN LET entry == interface.mac_address_table[1]
         IN  IF "macAddress" \in entry.keys
             THEN Plan("mac", "", "", entry.macAddress)
             ELSE Plan("raise", "", "", <<>>)
    ELSE Plan("none", "", "", <<>>)

\* the blocks printed by the hostname branch: the port-channel's, when the
\* interface is a member of one not yet in port_channels, then its own
HostBlocks(interface, plan, pcs) ==
    LET own == HostBlock(interface.name, <<plan.short, ", ", plan.id>>)
    IN  IF interface.hasMembership /\ interface.interfaceMembership[3] \notin pcs
        THEN <<HostBlock(interface.interfaceMembership[3], <<plan.short>>), own>>
        ELSE <<own>>

-----------------------------------------------------------------------------
(* Specification of one run of main *)

RunConfiglets ==
    {NoConfiglet,
     [exists |-> TRUE, ts |-> StartNow, config |-> JsonDumps(ParseMatches(EmptyDb, Doc1))]}
RunResponses == {NoResponse, Response(Doc1)}

AInit ==
    /\ lldp_neighbors \in LldpInputs
    /\ mac_address_table \in MacTables
    /\ comments \in [IfNames -> BOOLEAN]
    /\ interfaces \in InterfaceInputs
    /\ a_pc = "ingest"
    /\ a_i = 1
    /\ port_channels = {}
    /\ output = <<>>

\* main, up to the call of auto_description
AIngest ==
    /\ a_pc = "ingest"
    /\ interfaces' = mac_address_table_to_interfaces(
                        lldp_neighbors_to_interfaces(interfaces, lldp_neighbors),
                        mac_address_table)
    /\ a_pc' = "loop"
    /\ UNCHANGED <<lldp_neighbors, mac_address_table, comments, a_i, port_channels,
                   output>>

\* one iteration of the loop of auto_description
AStep ==
    /\ a_pc = "loop"
    /\ a_i <= Cardinality(DOMAIN interfaces)
    /\ LET interface == interfaces[SortedNames(DOMAIN interfaces)[a_i]]
           plan == InterfacePlan(interface, comments[interface.name])
       IN  /\ IF plan.kind = "mac"
              THEN /\ \E response \in RunResponses, existsOk \in BOOLEAN,
                         writeOk \in BOOLEAN, getOk \in BOOLEAN :
                          OuiList(response, existsOk, writeOk, getOk)
                   /\ output' = Append(output,
                                  OrgBlock(interface.name,
                                           OrgFromMac(plan.mac, c_ret', TRUE,
                                                      NotRegistered)))
              ELSE /\ UNCHANGED cvars
                   /\ output' = IF plan.kind = "host"
                                THEN output \o HostBlocks(interface, plan, port_channels)
                                ELSE output
           /\ port_channels' = IF plan.kind = "host" /\ interface.hasMembership
                               THEN port_channels \cup {interface.interfaceMembership[3]}
                               ELSE port_channels
           /\ a_pc' = IF plan.kind = "raise" THEN "raised" ELSE "loop"
           /\ a_i' = a_i + 1
    /\ UNCHANGED <<lldp_neighbors, mac_address_table, comments, interfaces>>

\* the loop is exhausted: auto_description and main return
AReturn ==
    /\ a_pc = "loop"
    /\ a_i > Cardinality(DOMAIN interfaces)
    /\ a_pc' = "done"
    /\ UNCHANGED <<lldp_neighbors, mac_address_table, comments, interfaces, a_i,
                   port_channels, output>>

AIdle ==
    /\ lldp_neighbors = [n \in {} |-> LldpEntry(FALSE, <<>>)]
    /\ mac_address_table = <<>>
    /\ comments = [n \in IfNames |-> FALSE]
    /\ interfaces = [n \in IfNames |-> Interface(n, FALSE)]
    /\ a_pc = "ingest"
    /\ a_i = 1
    /\ port_channels = {}
    /\ output = <<>>

-----------------------------------------------------------------------------
(* Specifications *)

ParseLine == MStep /\ UNCHANGED <<rvars, cvars, avars>>
MergeInit == MInit /\ RIdle /\ CIdle /\ AIdle
MergeNext == ParseLine
MergeSpec == MergeInit /\ [][MergeNext]_vars

Resolve == RCall /\ UNCHANGED <<mvars, cvars, avars>>
ResolveInit == RInit /\ MIdle /\ CIdle /\ AIdle
ResolveNext == Resolve
ResolveSpec == ResolveInit /\ [][ResolveNext]_vars

Tick == CTick /\ UNCHANGED <<mvars, rvars, avars>>
CallOuiList == COuiList /\ UNCHANGED <<mvars, rvars, avars>>
CacheInit == CInit /\ MIdle /\ RIdle /\ AIdle
CacheNext == Tick \/ CallOuiList
CacheSpec == CacheInit /\ [][CacheNext]_vars

Ingest == AIngest /\ UNCHANGED <<mvars, rvars, cvars>>
ProcessInterface == AStep /\ UNCHANGED <<mvars, rvars>>
Return == AReturn /\ UNCHANGED <<mvars, rvars, cvars>>
RunInit ==
    /\ AInit
    /\ MIdle
    /\ RIdle
    /\ now = StartNow
    /\ py2 = FALSE
    /\ configlet \in RunConfiglets
    /\ fetches = <<>>
    /\ c_ret = EmptyDb
    /\ c_last = NoCall
RunNext == Ingest \/ ProcessInterface \/ Return
RunSpec == RunInit /\ [][RunNext]_vars

-----------------------------------------------------------------------------
(* Properties of the parse loop *)

ParsedKeys == {NormalizeOui(m_doc[j].oui) : j \in 1..(m_i - 1)}

LinesOf(k) == {j \in 1..(m_i - 1) : NormalizeOui(m_doc[j].oui) = k}

SpecificLinesOf(k) == {j \in LinesOf(k) : m_doc[j].org # Placeholder}

MinOf(S) == CHOOSE x \in S : \A y \in S : x <= y

\* C6: after any number of lines of one document have been merged, every
\* key seen so far is bound to the organization of the first line that
\* binds it to a name other than "IEEERegi", and to "IEEERegi" only when
\* every line for it says so: a placeholder is replaced by the next value,
\* a specific name is kept whatever follows.
C6_MergeRule ==
    /\ DOMAIN m_db = ParsedKeys
    /\ \A k \in ParsedKeys :
          IF SpecificLinesOf(k) = {}
          THEN m_db[k] = Placeholder
          ELSE m_db[k] = m_doc[MinOf(SpecificLinesOf(k))].org

C6_Witness ==
    /\ m_i = 4
    /\ Len(m_doc) = 3
    /\ m_doc[1] = [oui |-> Pfx24, org |-> Placeholder]
    /\ m_doc[2] = [oui |-> Pfx24, org |-> "Acme"]
    /\ m_doc[3] = [oui |-> Pfx24, org |-> Placeholder]
    /\ m_db[Pfx24Full] = "Acme"

-----------------------------------------------------------------------------
(* Properties of the resolver *)

Hit(mask) == MaskedOui(r_mac, mask) \in DOMAIN r_db

\* C5: with external lookup enabled, the organization returned is the one
\* bound to the 36-bit masked form when that is in the mapping, else the
\* one bound to the 28-bit form when that is in the mapping, else the one
\* bound to the 24-bit form when that is in the mapping.
C5_LongestPrefix ==
    (r_pc = "returned" /\ r_ext) =>
        /\ Hit(OUI36_MASK) => r_ret.org = r_db[MaskedOui(r_mac, OUI36_MASK)]
        /\ (~Hit(OUI36_MASK) /\ Hit(OUI28_MASK))
              => r_ret.org = r_db[MaskedOui(r_mac, OUI28_MASK)]
        /\ (~Hit(OUI36_MASK) /\ ~Hit(OUI28_MASK) /\ Hit(OUI24_MASK))
              => r_ret.org = r_db[MaskedOui(r_mac, OUI24_MASK)]

C5_Witness ==
    /\ r_pc = "returned"
    /\ r_ext
    /\ r_mac = MacA
    /\ Hit(OUI36_MASK) /\ Hit(OUI28_MASK) /\ Hit(OUI24_MASK)
    /\ r_db[Pfx36] = "Acme"
    /\ r_db[Pfx28] = "Globex"
    /\ r_db[Pfx24Full] = "IEEERegi"
    /\ r_ret.org = "Acme"

NoHit == ~Hit(OUI36_MASK) /\ ~Hit(OUI28_MASK) /\ ~Hit(OUI24_MASK)

\* C9 as stated: after a miss on all three masks with external lookup
\* enabled, the organization is the static registration of the MAC's OUI,
\* and "Unknown" only when the OUI is not registered.
C9_StaticFallbackAfterMiss ==
    (r_pc = "returned" /\ r_ext /\ NoHit) => r_ret.org = StaticOrg(r_static)

\* C9 amended: with external lookup enabled a miss on all three masks gives
\* "Unknown" whatever the static registration is; the static registration
\* (or "Unknown" when the OUI is not registered) is returned only when
\* external lookup is disabled.
C9_UnknownAfterMiss ==
    /\ (r_pc = "returned" /\ r_ext /\ NoHit) => r_ret.org = Unknown
    /\ (r_pc = "returned" /\ ~r_ext) => r_ret.org = StaticOrg(r_static)

C9_Witness ==
    /\ r_pc = "returned"
    /\ r_ext
    /\ NoHit
    /\ r_static = "Acme"
    /\ r_ret.org = Unknown

-----------------------------------------------------------------------------
(* Properties of the cache *)

\* C1: a call that decided to refresh while a cache object existed, and
\* whose fetch returned no content, leaves the stored content as it was and
\* returns the previously stored mapping.
C1_FailedFetchKeepsCache ==
    (c_last.called /\ c_last.update_needed /\ c_last.pre.exists
       /\ ~c_last.response.ok /\ c_last.getOk)
      => /\ configlet.config = c_last.pre.config
         /\ c_ret = JsonLoads(c_last.pre.config)

SpecificKeys(obj) ==
    IF obj.exists
    THEN {k \in DOMAIN JsonLoads(obj.config) : JsonLoads(obj.config)[k] # Placeholder}
    ELSE {}

\* C2: a prefix the persisted cache binds to a specific name is bound to a
\* specific name in every later state of the persisted cache.
C2_SpecificNeverLost ==
    [][SpecificKeys(configlet) \subseteq SpecificKeys(configlet')]_vars

\* C3: any two fetches of the registry are at least 24 hours apart.
C3_FetchOncePer24h ==
    \A i, j \in 1..Len(fetches) :
        i < j => fetches[j] - fetches[i] >= MsPer24h

\* C4: a call attempts a refresh exactly when the cache object does not
\* exist, or exists with a last-modified time strictly more than 24 hours
\* before the call.
C4_RefreshIffAbsentOrStale ==
    c_last.called =>
        (c_last.update_needed <=>
            (~c_last.pre.exists \/ c_last.at - c_last.pre.ts > MsPer24h))

-----------------------------------------------------------------------------
(* Properties of a run *)

Finished == a_pc \in {"done", "raised"}

BlocksFor(name) == {i \in 1..Len(output) : output[i].interface = name}

\* the interface passes the name test and carries no marker
Eligible(name) ==
    /\ \/ StartsWith(Codes(name), EthernetCodes)
       \/ StartsWith(Codes(name), ManagementCodes)
    /\ ~comments[name]

\* the interface has exactly one LLDP neighbor, identified by a hostname
HasHostnameNeighbor(name) ==
    /\ Len(interfaces[name].lldp_neighbors) = 1
    /\ LET neighbor == interfaces[name].lldp_neighbors[1]
       IN  \/ "systemName" \in neighbor.keys /\ ~is_mac(neighbor.systemName)
           \/ /\ "systemName" \notin neighbor.keys
              /\ "chassisId" \in neighbor.keys
              /\ ~is_mac(neighbor.chassisId)

HostnameOf(name) ==
    LET neighbor == interfaces[name].lldp_neighbors[1]
    IN  IF "systemName" \in neighbor.keys THEN neighbor.systemName
        ELSE neighbor.chassisId

HostnameMembers(po) ==
    {n \in DOMAIN interfaces :
        /\ Eligible(n)
        /\ interfaces[n].hasMembership
        /\ interfaces[n].interfaceMembership[3] = po
        /\ HasHostnameNeighbor(n)}

FirstByName(names) ==
    CHOOSE n \in names : \A o \in names \ {n} : LexLess(Codes(n), Codes(o))

\* C7: when the run is over, a port-channel has at most one block; it has
\* exactly one when some eligible member has a single LLDP neighbor
\* identified by a hostname, and that block precedes the block of the first
\* such member by name and carries that member's short hostname.
C7_OneBlockPerPortChannel ==
    Finished =>
        /\ Cardinality(BlocksFor(PoName)) <= 1
        /\ HostnameMembers(PoName) # {} =>
             LET first == FirstByName(HostnameMembers(PoName))
             IN  /\ Cardinality(BlocksFor(PoName)) = 1
                 /\ \E i \in BlocksFor(PoName), j \in BlocksFor(first) :
                       /\ i < j
                       /\ output[i].text = <<Upper(Head(HostnameOf(first).labels))>>

\* C8: no block is ever printed for an interface name whose running-config
\* comments carry "no auto-description".
C8_MarkedNeverDescribed ==
    \A i \in 1..Len(output) : ~comments[output[i].interface]

\* the interface's own records are well formed and give it a description
ExpectsBlock(name) ==
    /\ Eligible(name)
    /\ \/ /\ Len(interfaces[name].lldp_neighbors) = 1
          /\ interfaces[name].lldp_neighbors[1] \in WellFormedNeighbors
       \/ /\ Len(interfaces[name].lldp_neighbors) # 1
          /\ Len(interfaces[name].mac_address_table) = 1
          /\ "macAddress" \in interfaces[name].mac_address_table[1].keys

\* C10: the run never aborts, and when it is over every interface whose own
\* records are well formed has the block its records give it.
C10_MalformedRecordSkipped ==
    Finished =>
        /\ a_pc = "done"
        /\ \A n \in DOMAIN interfaces : ExpectsBlock(n) => BlocksFor(n) # {}

====
